---- MODULE Spec2Model ----
(***************************************************************************)
(* HomeScreen (src/components/Screens/HomeScreen.tsx) of abacus: the       *)
(* session guard run once at mount (useEffect, lines 301-332) and the      *)
(* focus/filter-triggered data refresh (useFocusEffect, lines 339-367),    *)
(* together with the per-tab pull-to-refresh handlers.                     *)
(*                                                                         *)
(* JavaScript runs the handlers on one event loop: an action of this       *)
(* module is one handler, or the stretch of an async function between two  *)
(* awaits on an external collaborator.                                     *)
(***************************************************************************)
EXTENDS Integers, Sequences, FiniteSets, TLC

VARIABLES
    store,          \* SecureStore: the blob kept under secureKeys.tokens
    backendURL,     \* state.configuration.backendURL
    faceId,         \* state.configuration.faceId
    header,         \* axios.defaults.headers.Authorization
    pc,             \* position of the async session guard of the mount effect
    storageValue,   \* the guard's local: JSON.parse(tokens)
    refreshCalls,   \* arguments of the getFreshAccessToken calls, in order
    refreshed,      \* what the refresh endpoint answered, in order
    prompts,        \* LocalAuthentication.authenticateAsync calls so far
    bioAuth,        \* what the prompt reported: "none", "success", "denied"
    currenciesCalls,\* headers under which getCurrencies was called, in order
    navResets,      \* routes of the navigation resets dispatched, in order
    toasts,         \* descriptions of the toasts shown, in order
    mounted,        \* HomeScreen is in the navigation state
    focused,        \* the screen has focus
    isActive,       \* isActive of the current focus-effect closure
    rangeDetails,   \* state.firefly.rangeDetails
    currency,       \* state.currencies.current
    prevFiltersRef, \* prevFiltersRef.current
    lastPull,       \* the latest pull-to-refresh: the effect it dispatched
    batches,        \* the Promise.all batches with effects still running, in order
    ran,            \* the focus-effect callback has run at least once
    lastRun,        \* the latest run of the focus-effect callback
    prevRunFp       \* the fingerprint of the run before the latest

guardVars == <<store, header, pc, storageValue, refreshCalls, refreshed, prompts,
               bioAuth, currenciesCalls, navResets, toasts>>
configVars == <<backendURL, faceId>>
screenVars == <<mounted, focused, isActive, rangeDetails, currency, prevFiltersRef,
                lastPull, batches, ran, lastRun, prevRunFp>>
vars == <<store, backendURL, faceId, header, pc, storageValue, refreshCalls,
          refreshed, prompts, bioAuth, currenciesCalls, navResets, toasts,
          mounted, focused, isActive, rangeDetails, currency, prevFiltersRef,
          lastPull, batches, ran, lastRun, prevRunFp>>

----------------------------------------------------------------------------
(* Bounds of the model.                                                    *)

MaxBatches == 2     \* Promise.all batches with effects still running
Now == 2            \* the clock at the freshness check
MaxExpiry == 4      \* latest expiresAt of a stored credential

\* TokenResponse.isTokenFresh's default margin (ten minutes), in clock units
TokenMargin == 1

----------------------------------------------------------------------------
(* JavaScript values.                                                      *)

Undefined == "undefined"

\* obj?.field and obj.field of an object that may lack the field
Get(obj, field) == IF field \in DOMAIN obj THEN obj[field] ELSE Undefined

\* truthiness of a string-or-undefined value
Truthy(v) == v # Undefined /\ v # ""

\* string interpolation of a string-or-undefined value
Str(v) == IF v = Undefined THEN "undefined" ELSE v

----------------------------------------------------------------------------
(* The secure store and the stored credential.                             *)

Null == [null |-> TRUE]

\* what SecureStore.getItemAsync can give: null, a text that is no JSON, or
\* the JSON text of an object
NullBlob == [kind |-> "null"]
NotJSON == [kind |-> "text", text |-> "tokens"]
JSONstringify(obj) == [kind |-> "json", value |-> obj]

\* JSON.parse(tokens): null for null, a SyntaxError for a text that is no JSON
JSONparse(tokens) ==
    CASE tokens.kind = "null" -> [threw |-> FALSE, value |-> Null]
      [] tokens.kind = "text" -> [threw |-> TRUE, value |-> Null]
      [] OTHER -> [threw |-> FALSE, value |-> tokens.value]

Credential(e) == [accessToken |-> "A", refreshToken |-> "R", expiresAt |-> e]

\* expired, not expired but inside the margin, and fresh
StoredCredentials == {Credential(Now - 1), Credential(Now + 1), Credential(MaxExpiry)}

\* an object that holds no access token
NoToken == [refreshToken |-> "R"]

Blobs == {NullBlob, NotJSON, JSONstringify(NoToken)}
             \cup {JSONstringify(c) : c \in StoredCredentials}

BackendURLs == {"", "https://firefly.example"}

\* what the refresh endpoint returns on success
FreshCredentials == {[accessToken |-> "A2", refreshToken |-> "R2",
                      expiresAt |-> MaxExpiry + 1]}

RefreshErrors == {"Request failed with status code 401", "timeout exceeded"}
CurrenciesErrors == {"Network Error"}

Bearer(accessToken) == "Bearer " \o accessToken

\* the freshness test with the comparison turned round
isTokenStale(token) == Now >= token.expiresAt - TokenMargin

\* TokenResponse.isTokenFresh(storageValue)
isTokenFresh(token) == Now < token.expiresAt - TokenMargin

\* storageValue && storageValue.accessToken && backendURL
HasSession(value, url) ==
    /\ value # Null
    /\ Truthy(Get(value, "accessToken"))
    /\ Truthy(url)

\* navigation.dispatch(CommonActions.reset({index: 0, routes: [{name: 'oauth'}]}))
goToOauth(resets) == Append(resets, "oauth")

\* description of the toast of the catch block
ToastDescription(message) == "home_container_error_description" \o ", " \o message

----------------------------------------------------------------------------
(* The session guard: the async function of the mount effect.              *)

\* await dispatch.currencies.getCurrencies(), up to the await
getCurrencies ==
    /\ currenciesCalls' = Append(currenciesCalls, header')
    /\ pc' = "currencies"

\* faceIdCheck without its if (faceId): the prompt is always shown
faceIdCheckUnconditional ==
    /\ prompts' = prompts + 1
    /\ pc' = "bio"
    /\ UNCHANGED currenciesCalls

\* await faceIdCheck(), up to its first await: the prompt when faceId is on;
\* otherwise it returns and the guard goes on to getCurrencies
faceIdCheck ==
    IF faceId
    THEN /\ prompts' = prompts + 1
         /\ pc' = "bio"
         /\ UNCHANGED currenciesCalls
    ELSE /\ UNCHANGED prompts
         /\ getCurrencies

\* the catch block showing the toast without e.message
catchBlockWithoutMessage(message) ==
    /\ toasts' = Append(toasts, "home_container_error_description")
    /\ pc' = "done"

\* catch (e) { toast.show(...) }
catchBlock(message) ==
    /\ toasts' = Append(toasts, ToastDescription(message))
    /\ pc' = "done"

\* JSON.parse(tokens) throws outside the try: the async function rejects
GetItemThrows ==
    /\ pc = "getItem"
    /\ JSONparse(store).threw
    /\ pc' = "threw"
    /\ UNCHANGED <<store, header, storageValue, refreshCalls, refreshed, prompts,
                   bioAuth, currenciesCalls, navResets, toasts>>
    /\ UNCHANGED <<configVars, screenVars>>

\* the else branch: goToOauth()
GetItemRedirect ==
    /\ pc = "getItem"
    /\ ~JSONparse(store).threw
    /\ storageValue' = JSONparse(store).value
    /\ ~HasSession(storageValue', backendURL)
    /\ navResets' = goToOauth(navResets)
    /\ pc' = "done"
    /\ UNCHANGED <<store, header, refreshCalls, refreshed, prompts, bioAuth,
                   currenciesCalls, toasts>>
    /\ UNCHANGED <<configVars, screenVars>>

\* the header is installed, the token is not fresh: getFreshAccessToken is called
GetItemStale ==
    /\ pc = "getItem"
    /\ ~JSONparse(store).threw
    /\ storageValue' = JSONparse(store).value
    /\ HasSession(storageValue', backendURL)
    /\ header' = Bearer(storageValue'.accessToken)
    /\ ~isTokenFresh(storageValue')
    /\ refreshCalls' = Append(refreshCalls, storageValue'.refreshToken)
    /\ pc' = "refresh"
    /\ UNCHANGED <<store, refreshed, prompts, bioAuth, currenciesCalls, navResets,
                   toasts>>
    /\ UNCHANGED <<configVars, screenVars>>

\* the header is installed, the token is fresh: on to faceIdCheck
GetItemFresh ==
    /\ pc = "getItem"
    /\ ~JSONparse(store).threw
    /\ storageValue' = JSONparse(store).value
    /\ HasSession(storageValue', backendURL)
    /\ header' = Bearer(storageValue'.accessToken)
    /\ isTokenFresh(storageValue')
    /\ faceIdCheck
    /\ UNCHANGED <<store, refreshCalls, refreshed, bioAuth, navResets, toasts>>
    /\ UNCHANGED <<configVars, screenVars>>

\* the getFreshAccessToken effect (models/firefly) when the endpoint returns
\* credential c: it persists c and installs its access token
getFreshAccessTokenFulfilled(c) ==
    /\ refreshed' = Append(refreshed, [ok |-> TRUE, credential |-> c])
    /\ store' = JSONstringify(c)
    /\ header' = Bearer(c.accessToken)

\* the getFreshAccessToken effect when the endpoint fails: it throws and
\* leaves the store and the header as they were
getFreshAccessTokenRejected(message) ==
    /\ refreshed' = Append(refreshed, [ok |-> FALSE, message |-> message])
    /\ UNCHANGED <<store, header>>

\* dispatch.firefly.getFreshAccessToken resolves; the guard goes on to
\* faceIdCheck
RefreshFulfilled ==
    /\ pc = "refresh"
    /\ \E c \in FreshCredentials : getFreshAccessTokenFulfilled(c)
    /\ faceIdCheck
    /\ UNCHANGED <<storageValue, refreshCalls, bioAuth, navResets, toasts>>
    /\ UNCHANGED <<configVars, screenVars>>

\* the rejection of getFreshAccessToken swallowed: the guard goes on to
\* faceIdCheck as after a successful refresh
RefreshRejectedSwallowed ==
    /\ pc = "refresh"
    /\ \E message \in RefreshErrors : getFreshAccessTokenRejected(message)
    /\ faceIdCheck
    /\ UNCHANGED <<storageValue, refreshCalls, bioAuth, navResets, toasts>>
    /\ UNCHANGED <<configVars, screenVars>>

\* dispatch.firefly.getFreshAccessToken rejects: the catch block
RefreshRejected ==
    /\ pc = "refresh"
    /\ \E message \in RefreshErrors :
          /\ getFreshAccessTokenRejected(message)
          /\ catchBlock(message)
    /\ UNCHANGED <<storageValue, refreshCalls, prompts, bioAuth, currenciesCalls,
                   navResets>>
    /\ UNCHANGED <<configVars, screenVars>>

\* LocalAuthentication.authenticateAsync resolves; faceIdCheck returns either
\* way and the guard goes on to getCurrencies
BioResolved ==
    /\ pc = "bio"
    /\ \E success \in BOOLEAN :
          /\ bioAuth' = IF success THEN "success" ELSE "denied"
          /\ navResets' = IF ~success THEN goToOauth(navResets) ELSE navResets
    /\ UNCHANGED header
    /\ getCurrencies
    /\ UNCHANGED <<store, storageValue, refreshCalls, refreshed, prompts, toasts>>
    /\ UNCHANGED <<configVars, screenVars>>

\* dispatch.currencies.getCurrencies resolves: the async function returns
CurrenciesFulfilled ==
    /\ pc = "currencies"
    /\ pc' = "done"
    /\ UNCHANGED <<store, header, storageValue, refreshCalls, refreshed, prompts,
                   bioAuth, currenciesCalls, navResets, toasts>>
    /\ UNCHANGED <<configVars, screenVars>>

\* dispatch.currencies.getCurrencies rejects: the catch block
CurrenciesRejected ==
    /\ pc = "currencies"
    /\ \E message \in CurrenciesErrors : catchBlock(message)
    /\ UNCHANGED <<store, header, storageValue, refreshCalls, refreshed, prompts,
                   bioAuth, currenciesCalls, navResets>>
    /\ UNCHANGED <<configVars, screenVars>>

----------------------------------------------------------------------------
(* The refresh coordinator: the focus-effect callback and its fetches.     *)

UndefinedObject == [undefined |-> TRUE]

\* the store's rangeDetails and current currency: before they are loaded,
\* and two later filter states
Filters == {<<UndefinedObject, UndefinedObject>>,
            <<[start |-> "2024-01-01", end |-> "2024-01-31"], [id |-> "1"]>>}

\* `${rangeDetails?.start}-${rangeDetails?.end}-${currency?.id}`
Fingerprint(range, cur) ==
    Str(Get(range, "start")) \o "-" \o Str(Get(range, "end")) \o "-" \o Str(Get(cur, "id"))

\* the four effects of the Promise.all, in the order of the array
Families == <<"getNetWorth", "getAccounts", "getInsightCategories", "getInsightBudgets">>

\* the effect the RefreshControl of a tab's list dispatches
onRefresh(tab) ==
    CASE tab = "home_accounts" -> "getAccounts"
      [] tab = "home_categories" -> "getInsightCategories"
      [] tab = "home_budgets" -> "getInsightBudgets"

\* useState('home_accounts'): the tab in view; the model leaves it there
tab == "home_accounts"

\* fetchData with getInsightBudgets left out of the array
fetchDataWithoutBudgets(active, authorization) ==
    IF active /\ Truthy(authorization) THEN SubSeq(Families, 1, 3) ELSE << >>

\* fetchData: the effects it dispatches, given its closure's isActive and the header
fetchData(active, authorization) ==
    IF active /\ Truthy(authorization) THEN Families ELSE << >>

\* return () => { isActive = false; }: the closures of the batches issued so
\* far are those of earlier runs of the callback
cleanup(bs) == [i \in DOMAIN bs |-> [bs[i] EXCEPT !.isActive = FALSE]]

\* prevFiltersRef.current written only when fetchData dispatched its batch
nextPrevFiltersWhenIssued(prev, fp, issued) ==
    IF prev # fp /\ issued # << >> THEN fp ELSE prev

\* prevFiltersRef.current never written
nextPrevFiltersKept(prev, fp, issued) == prev

\* prevFiltersRef.current after the callback ran with fingerprint fp
nextPrevFilters(prev, fp, issued) == IF prev # fp THEN fp ELSE prev

\* a Promise.all over the dispatched effects, all of them running. Nothing
\* in the screen tells the effects of a batch apart once they are dispatched:
\* a batch counts those still pending, those fulfilled and those rejected
newBatch(fp, issued) ==
    [fp |-> fp, isActive |-> TRUE,
     pending |-> Len(issued), fulfilled |-> 0, rejected |-> 0,
     settled |-> "no", activeAtSettle |-> FALSE]

\* one run of the focus-effect callback with fingerprint fp
callback(fp) ==
    LET changed == prevFiltersRef # fp
        issued == IF changed THEN fetchData(TRUE, header) ELSE << >>
    IN  /\ isActive' = TRUE
        /\ batches' = IF issued # << >>
                         THEN Append(cleanup(batches), newBatch(fp, issued))
                         ELSE cleanup(batches)
        /\ prevFiltersRef' = nextPrevFilters(prevFiltersRef, fp, issued)
        /\ ran' = TRUE
        /\ lastRun' = [fp |-> fp, before |-> prevFiltersRef,
                        authorized |-> Truthy(header), issued |-> issued]
        /\ prevRunFp' = IF ran THEN lastRun.fp ELSE Undefined

\* the bound leaves room for the batch the callback would issue
CanRun(fp) ==
    (prevFiltersRef # fp /\ Truthy(header)) => Len(batches) < MaxBatches

\* the screen gains focus: useFocusEffect runs the callback
FocusEnter ==
    /\ mounted /\ ~focused
    /\ CanRun(Fingerprint(rangeDetails, currency))
    /\ focused' = TRUE
    /\ callback(Fingerprint(rangeDetails, currency))
    /\ UNCHANGED <<rangeDetails, currency, mounted, lastPull>>
    /\ UNCHANGED <<guardVars, configVars>>

\* the screen loses focus: useFocusEffect runs the cleanup
FocusExit ==
    /\ mounted /\ focused
    /\ focused' = FALSE
    /\ isActive' = FALSE
    /\ batches' = cleanup(batches)
    /\ UNCHANGED <<rangeDetails, currency, mounted, prevFiltersRef, lastPull, ran,
                   lastRun, prevRunFp>>
    /\ UNCHANGED <<guardVars, configVars>>

\* the store gives new rangeDetails/currency objects: with the screen
\* focused the effect's dependencies changed, so the cleanup and then the
\* new callback run
FilterChange ==
    /\ mounted
    /\ \E filter \in Filters :
          /\ focused => CanRun(Fingerprint(filter[1], filter[2]))
          /\ rangeDetails' = filter[1]
          /\ currency' = filter[2]
          /\ IF focused
                THEN callback(Fingerprint(filter[1], filter[2]))
                ELSE UNCHANGED <<isActive, batches, prevFiltersRef, ran, lastRun,
                                 prevRunFp>>
    /\ UNCHANGED <<focused, mounted, lastPull>>
    /\ UNCHANGED <<guardVars, configVars>>

\* pull-to-refresh on the list in view: RefreshControl onRefresh dispatches
\* the effect, whatever the header, and does not await it
PullToRefresh ==
    /\ mounted /\ focused
    /\ lastPull' = [family |-> onRefresh(tab), authorized |-> Truthy(header)]
    /\ UNCHANGED <<mounted, focused, isActive, rangeDetails, currency, prevFiltersRef,
                   batches, ran, lastRun, prevRunFp>>
    /\ UNCHANGED <<guardVars, configVars>>

\* Promise.all after one more of its effects fulfilled: it fulfils when all have
fulfil(batch) ==
    LET all == batch.pending = 1 /\ batch.rejected = 0
    IN  [batch EXCEPT !.pending = @ - 1,
                      !.fulfilled = @ + 1,
                      !.settled = IF @ = "no" /\ all THEN "fulfilled" ELSE @,
                      !.activeAtSettle = IF batch.settled = "no" /\ all
                                           THEN batch.isActive ELSE @]

\* a rejection that takes the effects still running down with it
rejectCancelsOthers(batch) ==
    [batch EXCEPT !.pending = 0,
                  !.rejected = @ + 1,
                  !.settled = IF @ = "no" THEN "rejected" ELSE @,
                  !.activeAtSettle = IF batch.settled = "no" THEN batch.isActive ELSE @]

\* Promise.all after one more of its effects rejected: it rejects with the
\* first rejection, the other effects run on
reject(batch) ==
    [batch EXCEPT !.pending = @ - 1,
                  !.rejected = @ + 1,
                  !.settled = IF @ = "no" THEN "rejected" ELSE @,
                  !.activeAtSettle = IF batch.settled = "no" THEN batch.isActive ELSE @]

\* a batch all of whose effects have completed leaves no trace in the screen
running(bs) == SelectSeq(bs, LAMBDA batch : batch.pending > 0)

\* an effect of a batch resolves
FetchFulfilled ==
    /\ \E b \in DOMAIN batches :
          /\ batches[b].pending > 0
          /\ batches' = running([batches EXCEPT ![b] = fulfil(@)])
    /\ UNCHANGED <<mounted, focused, isActive, rangeDetails, currency, prevFiltersRef,
                   lastPull, ran, lastRun, prevRunFp>>
    /\ UNCHANGED <<guardVars, configVars>>

\* an effect of a batch rejects; fetchData's catch swallows the rejection
FetchRejected ==
    /\ \E b \in DOMAIN batches :
          /\ batches[b].pending > 0
          /\ batches' = running([batches EXCEPT ![b] = reject(@)])
    /\ UNCHANGED <<mounted, focused, isActive, rangeDetails, currency, prevFiltersRef,
                   lastPull, ran, lastRun, prevRunFp>>
    /\ UNCHANGED <<guardVars, configVars>>

\* the navigator applies a reset to the oauth route: HomeScreen leaves the
\* navigation state and its effects are cleaned up
Unmount ==
    /\ mounted
    /\ navResets # << >>
    /\ mounted' = FALSE
    /\ focused' = FALSE
    /\ isActive' = FALSE
    /\ batches' = cleanup(batches)
    /\ UNCHANGED <<rangeDetails, currency, prevFiltersRef, lastPull, ran, lastRun,
                   prevRunFp>>
    /\ UNCHANGED <<guardVars, configVars>>

-----
(* The screen at mount: the mount effect has called getItemAsync, the      *)
(* focus effect has not run yet, and nothing has set the header.           *)

Init ==
    /\ store \in Blobs
    /\ backendURL \in BackendURLs
    /\ faceId \in BOOLEAN
    /\ header = Undefined
    /\ pc = "getItem"
    /\ storageValue = Null
    /\ refreshCalls = << >>
    /\ refreshed = << >>
    /\ prompts = 0
    /\ bioAuth = "none"
    /\ currenciesCalls = << >>
    /\ navResets = << >>
    /\ toasts = << >>
    /\ mounted = TRUE
    /\ focused = FALSE
    /\ isActive = FALSE
    /\ rangeDetails = UndefinedObject
    /\ currency = UndefinedObject
    /\ prevFiltersRef = Undefined
    /\ lastPull = [family |-> Undefined, authorized |-> FALSE]
    /\ batches = << >>
    /\ ran = FALSE
    /\ lastRun = [fp |-> Undefined, before |-> Undefined, authorized |-> FALSE,
                  issued |-> << >>]
    /\ prevRunFp = Undefined

Next ==
    \/ GetItemThrows
    \/ GetItemRedirect
    \/ GetItemStale
    \/ GetItemFresh
    \/ RefreshFulfilled
    \/ RefreshRejected
    \/ BioResolved
    \/ CurrenciesFulfilled
    \/ CurrenciesRejected
    \/ FocusEnter
    \/ FocusExit
    \/ FilterChange
    \/ PullToRefresh
    \/ FetchFulfilled
    \/ FetchRejected
    \/ Unmount

Spec == Init /\ [][Next]_vars

\* the steps that wait on an external collaborator only: the secure store,
\* the refresh endpoint, the biometric prompt, the currencies fetch
GuardStep ==
    \/ GetItemThrows
    \/ GetItemRedirect
    \/ GetItemStale
    \/ GetItemFresh
    \/ RefreshFulfilled
    \/ RefreshRejected
    \/ BioResolved
    \/ CurrenciesFulfilled
    \/ CurrenciesRejected

\* an effect of a batch completes
FetchStep == FetchFulfilled \/ FetchRejected

\* every external call eventually answers and the navigator applies a reset
\* it was handed; nothing obliges the user to focus, blur, filter or pull
FairSpec ==
    /\ Spec
    /\ WF_vars(GuardStep)
    /\ WF_vars(FetchStep)
    /\ WF_vars(Unmount)

----------------------------------------------------------------------------
(* The refresh coordinator's contract.                                     *)

\* C1 (as claimed): no data fetch of any family is dispatched while the
\* auth header is unset, be it by the focus-effect batch or by pull-to-refresh.
C1_NoFetchWhileHeaderUnset ==
    /\ lastRun.issued # << >> => lastRun.authorized
    /\ lastPull.family # Undefined => lastPull.authorized

\* C2: of two consecutive runs of the callback with the same fingerprint, the
\* second dispatches no fetch, whatever happened between them.
C2_SameFingerprintIssuesNothing ==
    (ran /\ prevRunFp = lastRun.fp) => lastRun.issued = << >>

\* C2's case: the screen was refocused with the fingerprint of the run before,
\* the header set, while the batch of that fingerprint still has effects running.
C2_Witness ==
    /\ ran /\ focused
    /\ prevRunFp = lastRun.fp
    /\ lastRun.authorized
    /\ lastRun.issued = << >>
    /\ Len(batches) = 1
    /\ batches[1].fp = lastRun.fp
    /\ batches[1].settled = "no"

\* C3 (as claimed): a run that dispatched nothing because the header was unset
\* leaves prevFiltersRef.current as it was, so that prevFiltersRef.current only
\* ever holds a fingerprint a batch was dispatched for.
C3_IgnoredRunLeavesFingerprint ==
    (ran /\ ~lastRun.authorized) => prevFiltersRef = lastRun.before

\* C4: a run whose fingerprint differs from prevFiltersRef.current, with the
\* header set, dispatches the four effects, each once, all within the run.
C4_ChangedFingerprintIssuesFour ==
    (ran /\ lastRun.before # lastRun.fp /\ lastRun.authorized)
        => lastRun.issued = <<"getNetWorth", "getAccounts", "getInsightCategories",
                               "getInsightBudgets">>

\* C4's case: after an earlier run with another fingerprint, a run with a new
\* fingerprint and the header set has just dispatched its batch, all four
\* effects of which are running.
C4_Witness ==
    /\ ran /\ focused /\ lastRun.authorized
    /\ lastRun.before # Undefined
    /\ lastRun.before # lastRun.fp
    /\ Len(lastRun.issued) = 4
    /\ Len(batches) = 1
    /\ batches[1].fp = lastRun.fp
    /\ batches[1].pending = 4

\* C5 (as claimed): prevFiltersRef.current takes a run's new fingerprint only
\* once that run's batch has settled, and only if the screen kept focus until
\* then.
C5_FingerprintOnlyAfterCompletion ==
    \A b \in DOMAIN batches :
        batches[b].fp = prevFiltersRef
            => batches[b].settled # "no" /\ batches[b].activeAtSettle

----------------------------------------------------------------------------
(* The session guard's contract.                                           *)

\* the async function of the mount effect has returned or thrown
Ended == pc \in {"done", "threw"}

\* the value read from the store is a credential, and its expiry is past
Expired(value) == "expiresAt" \in DOMAIN value /\ value.expiresAt < Now

\* the value read from the store is a credential the freshness test passes
Fresh(value) == "expiresAt" \in DOMAIN value /\ isTokenFresh(value)

\* C6 (as claimed): with no stored credential, or one that does not parse, the
\* guard resets navigation to the oauth route, shows no toast, installs no
\* header, and calls neither the refresh endpoint nor the biometric prompt.
C6_MissingCredentialRedirects ==
    (Ended /\ (store = NullBlob \/ JSONparse(store).threw))
        => /\ navResets = <<"oauth">>
           /\ toasts = << >>
           /\ header = Undefined
           /\ refreshCalls = << >>
           /\ prompts = 0

\* C7 (as claimed): for every stored credential whose expiry is past, the guard
\* calls the refresh endpoint exactly once, with the stored refresh token; when
\* the call succeeds the store holds the refreshed credential and the header
\* its access token.
C7_ExpiredCredentialRefreshedOnce ==
    (pc # "getItem" /\ Expired(storageValue))
        => /\ refreshCalls = <<storageValue.refreshToken>>
           /\ (refreshed # << >> /\ refreshed[1].ok)
                 => /\ store = JSONstringify(refreshed[1].credential)
                    /\ header = Bearer(refreshed[1].credential.accessToken)

\* C7 (as amended): the same, for a stored credential that holds an access
\* token, when a backend URL is configured.
C7_ExpiredCredentialRefreshedOnceWithBackend ==
    (pc # "getItem" /\ Expired(storageValue) /\ Truthy(backendURL))
        => /\ refreshCalls = <<storageValue.refreshToken>>
           /\ Len(refreshed) <= 1
           /\ (refreshed # << >> /\ refreshed[1].ok)
                 => /\ store = JSONstringify(refreshed[1].credential)
                    /\ header = Bearer(refreshed[1].credential.accessToken)

\* C7's case: an expired credential was refreshed and the guard has ended.
C7_Witness ==
    /\ pc = "done"
    /\ Expired(storageValue)
    /\ refreshCalls = <<"R">>
    /\ Len(refreshed) = 1 /\ refreshed[1].ok
    /\ JSONparse(store).value.accessToken = "A2"
    /\ header = "Bearer A2"

\* C8: when the refresh call fails the guard shows exactly one toast, which
\* carries the failure's message, the header still holds the stored access
\* token, and navigation is not reset.
C8_RefreshFailureToasts ==
    (refreshed # << >> /\ ~refreshed[1].ok)
        => /\ toasts = <<ToastDescription(refreshed[1].message)>>
           /\ header = Bearer(storageValue.accessToken)
           /\ navResets = << >>
           /\ pc = "done"

\* C8's case: the refresh call failed and its toast is up.
C8_Witness ==
    /\ pc = "done"
    /\ refreshCalls = <<"R">>
    /\ refreshed = <<[ok |-> FALSE, message |-> "timeout exceeded"]>>
    /\ toasts = <<"home_container_error_description, timeout exceeded">>
    /\ header = "Bearer A"

\* C9 (as claimed): for every fresh stored credential, with faceId off, the
\* guard ends authenticated: the header holds the stored access token, and
\* there was no refresh call, no prompt, no navigation reset and no toast.
C9_FreshCredentialAuthenticates ==
    (Ended /\ Fresh(storageValue) /\ ~faceId)
        => /\ pc = "done"
           /\ header = Bearer(storageValue.accessToken)
           /\ refreshCalls = << >>
           /\ prompts = 0
           /\ navResets = << >>
           /\ toasts = << >>

\* C9 (as amended): the same when a backend URL is configured, from the moment
\* the store was read, save that the guard then fetches the currencies and
\* shows a toast when, and only when, that fetch fails.
C9_FreshCredentialAuthenticatesWithBackend ==
    (pc # "getItem" /\ Fresh(storageValue) /\ ~faceId /\ Truthy(backendURL))
        => /\ pc \in {"currencies", "done"}
           /\ header = Bearer(storageValue.accessToken)
           /\ refreshCalls = << >>
           /\ prompts = 0
           /\ navResets = << >>
           /\ currenciesCalls = <<header>>
           /\ toasts \in {<< >>} \cup {<<ToastDescription(m)>> : m \in CurrenciesErrors}
           /\ pc = "currencies" => toasts = << >>

\* C9's case: a fresh credential, faceId off, and the guard has ended.
C9_Witness ==
    /\ pc = "done"
    /\ Fresh(storageValue) /\ ~faceId
    /\ header = "Bearer A"
    /\ toasts = << >>

\* C10 (as claimed): with faceId on, a prompt that does not report success
\* ends the guard as a missing credential does: navigation reset to the oauth
\* route, and no toast.
C10_BiometricDenialLikeMissingCredential ==
    (Ended /\ bioAuth = "denied")
        => /\ navResets = <<"oauth">>
           /\ toasts = << >>

----------------------------------------------------------------------------
(* Failures of the batch's effects.                                        *)

\* batch after is batch before with at most one more of its effects completed
\* and none of its results lost
RunsOn(before, after) ==
    /\ after.fp = before.fp
    /\ after.pending >= before.pending - 1
    /\ after.fulfilled >= before.fulfilled
    /\ after.rejected >= before.rejected
    /\ after.pending + after.fulfilled + after.rejected = 4

\* C11: when an effect of a batch rejects, the batch's other effects stay as
\* dispatched and run on (over any step a batch with effects still to complete
\* keeps them, less at most one, and keeps its results), every toast and every
\* navigation reset there is comes from the session guard, and a later run
\* with a changed fingerprint and the header set dispatches its four effects.
C11_FailedFetchLeavesOthers ==
    /\ [][\A b \in DOMAIN batches :
             batches[b].pending > 1
                => \E c \in DOMAIN batches' : RunsOn(batches[b], batches'[c])]_vars
    /\ [](toasts # << >>
            => /\ pc = "done"
               /\ Len(toasts) = 1
               /\ \/ (refreshed # << >> /\ ~refreshed[Len(refreshed)].ok)
                  \/ currenciesCalls # << >>)
    /\ [](navResets # << >>
            => \/ bioAuth = "denied"
               \/ ~HasSession(storageValue, backendURL))
    /\ [](((\E b \in DOMAIN batches : batches[b].rejected > 0)
             /\ lastRun.before # lastRun.fp /\ lastRun.authorized)
            => Len(lastRun.issued) = 4)

\* C11's case: one effect of a batch rejected, two others fulfilled after
\* all and the fourth is still running; no toast, no navigation reset; and a
\* later run with another fingerprint has dispatched its own four effects.
C11_Witness ==
    /\ Len(batches) = 2
    /\ batches[1].rejected = 1
    /\ batches[1].fulfilled = 2
    /\ batches[1].pending = 1
    /\ batches[2].fp # batches[1].fp
    /\ batches[2].pending = 4
    /\ toasts = << >>
    /\ navResets = << >>

----------------------------------------------------------------------------
(* The session guard and the coordinator together.                         *)

\* C12 (as claimed): once a navigation reset to the oauth route has been
\* dispatched the guard runs no further step: it has ended, and it has not
\* called getCurrencies.
C12_RedirectIsTerminal ==
    navResets # << >> => (pc = "done" /\ currenciesCalls = << >>)

\* C13 (as claimed): once a navigation reset to the oauth route has been
\* dispatched the header is unset.
C13_RedirectClearsHeader ==
    navResets # << >> => header = Undefined

\* C14 (as claimed): with faceId on, no batch is dispatched, and none is in
\* flight, before the prompt has reported success.
C14_NoFetchBeforeBiometricSuccess ==
    (faceId /\ bioAuth # "success")
        => (batches = << >> /\ lastRun.issued = << >>)

\* C15: the guard's steps come in order: nothing is installed, refreshed or
\* prompted before the store has been read; a refresh call is made under an
\* installed header; and the prompt is shown at most once, under an installed
\* header, with no refresh call pending and none failed.
C15_GuardStepsInOrder ==
    /\ pc = "getItem"
          => (header = Undefined /\ refreshCalls = << >> /\ prompts = 0)
    /\ refreshCalls # << >> => header # Undefined
    /\ pc = "refresh"
          => (prompts = 0 /\ Len(refreshed) = Len(refreshCalls) - 1)
    /\ prompts > 0
          => /\ prompts = 1
             /\ header # Undefined
             /\ Len(refreshed) = Len(refreshCalls)
             /\ \A i \in DOMAIN refreshed : refreshed[i].ok

\* C15's case: the stored token was stale, the refresh call succeeded, and
\* the prompt is now up under the refreshed token.
C15_Witness ==
    /\ pc = "bio"
    /\ prompts = 1
    /\ refreshCalls = <<"R">>
    /\ Len(refreshed) = 1 /\ refreshed[1].ok
    /\ header = "Bearer A2"

\* C16 (as claimed): a batch in flight when the screen lost focus leaves
\* prevFiltersRef.current alone: while the screen is out of focus
\* prevFiltersRef.current is not the fingerprint of a batch still in flight.
C16_BlurDiscardsBatch ==
    ~focused => \A b \in DOMAIN batches : prevFiltersRef # batches[b].fp

\* the batches in flight for fingerprint fp
InFlight(bs, fp) == {b \in DOMAIN bs : bs[b].fp = fp}

\* C17: when the screen regains focus with the fingerprint of the latest run
\* while a batch for that fingerprint is in flight, no further batch for it is
\* started.
C17_RefocusStartsNoOverlappingBatch ==
    [][(/\ ran /\ ~focused /\ focused'
        /\ Fingerprint(rangeDetails, currency) = lastRun.fp
        /\ InFlight(batches, lastRun.fp) # {})
          => /\ Len(batches') = Len(batches)
             /\ Cardinality(InFlight(batches', lastRun.fp))
                  = Cardinality(InFlight(batches, lastRun.fp))]_vars

\* C17's case: the screen lost focus and regained it with the same
\* fingerprint while the one batch for it, dispatched before the blur, still
\* has effects running.
C17_Witness ==
    /\ ran /\ focused
    /\ prevRunFp = lastRun.fp
    /\ lastRun.fp = Fingerprint(rangeDetails, currency)
    /\ lastRun.issued = << >>
    /\ Len(batches) = 1
    /\ batches[1].fp = lastRun.fp
    /\ ~batches[1].isActive
    /\ batches[1].pending \in 1..3

\* the guard's three outcomes
Authenticated == header # Undefined /\ navResets = << >> /\ toasts = << >>
Redirect == navResets = <<"oauth">> /\ toasts = << >>
SessionError == Len(toasts) = 1 /\ navResets = << >>

\* C18 (as claimed): when the guard has ended authenticated with the screen
\* in focus, and the one run of the callback so far came before the header was
\* installed, then, the screen staying in focus, a batch for the fingerprint
\* in view is eventually dispatched.
C18_EventuallyFetched ==
    (/\ pc = "done" /\ Authenticated
     /\ focused /\ ran /\ prevRunFp = Undefined /\ ~lastRun.authorized)
        ~> (\/ ~focused
            \/ /\ lastRun.issued # << >>
               /\ lastRun.fp = Fingerprint(rangeDetails, currency))

\* C19 (as claimed): the guard ends in exactly one of its three outcomes.
C19_ExactlyOneOutcome ==
    Ended => (pc = "done" /\ (Authenticated \/ Redirect \/ SessionError))

====
